---- MODULE Spec2Model ----
(***************************************************************************)
(* Model of the Cloudflare Access JWT validator (src/src/main.rs): the      *)
(* JWKS key cache behind a reader/writer lock, the refresh callers         *)
(* (startup, periodic task, /refresh-keys, on-demand from /auth) and the   *)
(* /auth validation chain.                                                 *)
(***************************************************************************)
EXTENDS Integers, Sequences, FiniteSets, TLC

(* ------------------------------ bounds -------------------------------- *)

\* Number of /auth requests in flight at once.
NumReq == 1
\* Longest key-set document of the filter specification.
MaxKeys == 2
\* Wall-clock second at which the validation specification starts.
T0 == 100
\* How many seconds the clock may advance in the validation specification.
MaxTicks == 1

(* ------------------------- Option<T> values ---------------------------- *)

None == <<>>
Some(x) == <<x>>
IsSome(o) == Len(o) = 1
IsNone(o) == Len(o) = 0
Unwrap(o) == o[1]

(* --------------------------- configuration ----------------------------- *)

\* The value of CF_TEAM_NAME when it is set.
TeamName == "acme"
\* AppConfig::from_env: both strings are derived from the team name.
CfIssuer(team) == "https://" \o team \o ".cloudflareaccess.com"
CfJwksUrl(team) == "https://" \o team \o ".cloudflareaccess.com/cdn-cgi/access/certs"
cf_issuer == CfIssuer(TeamName)

(* ----------------------------- JWK records ----------------------------- *)

\* struct Jwk: every field is a string.
Jwk(kid, n, e, kty, alg, use) ==
    [kid |-> kid, n |-> n, e |-> e, kty |-> kty, alg |-> alg, use_ |-> use]

\* A string that is not base64url (DecodingKey::from_rsa_components rejects it).
NotBase64 == "!!"
B64Valid(s) == s # NotBase64

\* DecodingKey::from_rsa_components(&jwk.n, &jwk.e): decodes both components,
\* Err when either is not base64url.  The key is identified by its components.
from_rsa_components(n, e) ==
    IF B64Valid(n) /\ B64Valid(e) THEN Some([n |-> n, e |-> e]) ELSE None

(* -------------------- HashMap<String, DecodingKey> --------------------- *)

\* The map is a set of entries with pairwise different kid.
EmptyMap == {}
MapInsert(m, kid, key) ==
    {en \in m : en.kid # kid} \cup {[kid |-> kid, key |-> key]}
MapGet(m, kid) ==
    LET hit == {en \in m : en.kid = kid}
    IN  IF hit = {} THEN None ELSE Some((CHOOSE en \in hit : TRUE).key)

\* A filter that forgets the test of the intended use.
PassesFilterAnyUse(jwk) ==
    /\ jwk.kty = "RSA"
    /\ jwk.alg = "RS256"

\* The three property tests of the caching loop, in the code's order.
PassesFilter(jwk) ==
    /\ jwk.kty = "RSA"
    /\ jwk.alg = "RS256"
    /\ jwk.use_ = "sig"

\* One iteration of the caching loop over a fetched candidate.
CacheOne(m, jwk) ==
    IF ~PassesFilter(jwk) THEN m
    ELSE LET dk == from_rsa_components(jwk.n, jwk.e)
         IN  IF IsSome(dk) THEN MapInsert(m, jwk.kid, Unwrap(dk)) ELSE m

(* -------------------------------- tokens ------------------------------- *)

\* The aud claim as the provider encodes it: one string or a list of strings.
AudStr(a) == [isSeq |-> FALSE, vals |-> <<a>>]
AudSeq(s) == [isSeq |-> TRUE, vals |-> s]

\* A compact JWT: hdrOk says whether the header segment decodes, sig names the
\* public key under which the signature verifies.
Token(hdrOk, kid, alg, sig, exp, iss, aud) ==
    [hdrOk |-> hdrOk, kid |-> kid, alg |-> alg, sig |-> sig,
     exp |-> exp, iss |-> iss, aud |-> aud]

\* deserialize_audience: visit_str keeps the string, visit_seq takes the first
\* element and fails on an empty array.
deserialize_audience(a) ==
    IF ~a.isSeq THEN Some(a.vals[1])
    ELSE IF Len(a.vals) > 0 THEN Some(a.vals[1])
    ELSE None

\* jsonwebtoken::decode_header: Err when the header segment does not decode.
decode_header(tok) ==
    IF tok.hdrOk THEN Some([alg |-> tok.alg, kid |-> tok.kid]) ELSE None

\* Default leeway (seconds) of Validation::new.
Leeway == 60

\* Validation::new(Algorithm::RS256) with set_audience(&[aud]) and
\* iss = Some({cf_issuer}).
Validation(aud) ==
    [algorithms |-> {"RS256"}, aud |-> {aud}, iss |-> {cf_issuer},
     leeway |-> Leeway]

DecodeErr(e) == [ok |-> FALSE, err |-> e, iss |-> "", aud |-> ""]
DecodeOk(tok) ==
    [ok |-> TRUE, err |-> "", iss |-> tok.iss,
     aud |-> Unwrap(deserialize_audience(tok.aud))]

\* A decode that trusts whatever algorithm the token's header declares.
decodeAnyAlg(tok, key, v, t) ==
    IF tok.sig # key THEN DecodeErr("InvalidSignature")
    ELSE IF IsNone(deserialize_audience(tok.aud)) THEN DecodeErr("Json")
    ELSE IF tok.exp < t - v.leeway THEN DecodeErr("ExpiredSignature")
    ELSE IF tok.iss \notin v.iss THEN DecodeErr("InvalidIssuer")
    ELSE IF {tok.aud.vals[i] : i \in 1..Len(tok.aud.vals)} \cap v.aud = {}
         THEN DecodeErr("InvalidAudience")
    ELSE DecodeOk(tok)

\* jsonwebtoken::decode::<Claims>(token, key, validation) at time t: algorithm,
\* signature, deserialization of Claims, then exp / iss / aud validation (the
\* library accepts when ANY audience of the token is an expected one).
decode(tok, key, v, t) ==
    IF tok.alg \notin v.algorithms THEN DecodeErr("InvalidAlgorithm")
    ELSE IF tok.sig # key THEN DecodeErr("InvalidSignature")
    ELSE IF IsNone(deserialize_audience(tok.aud)) THEN DecodeErr("Json")
    ELSE IF tok.exp < t - v.leeway THEN DecodeErr("ExpiredSignature")
    ELSE IF tok.iss \notin v.iss THEN DecodeErr("InvalidIssuer")
    ELSE IF {tok.aud.vals[i] : i \in 1..Len(tok.aud.vals)} \cap v.aud = {}
         THEN DecodeErr("InvalidAudience")
    ELSE DecodeOk(tok)

\* The additional issuer test on the deserialized claims.
IssuerMatches(claims) == claims.iss = cf_issuer
\* A validator that leaves the audience to the library's test.
AudienceLeftToLibrary(claims, aud) == TRUE

\* The additional audience test on the deserialized claims.
AudienceMatches(claims, aud) == claims.aud = aud

\* validate_jwt from "Validate" on, with the decoding key resolved: "ok" or
\* the reason logged for the rejection.
ValidateWithKey(tok, key, aud, t) ==
    LET d == decode(tok, key, Validation(aud), t)
    IN  IF ~d.ok THEN d.err
        ELSE IF ~IssuerMatches(d) THEN "issuer mismatch"
        ELSE IF ~AudienceMatches(d, aud) THEN "audience mismatch"
        ELSE "ok"

(* ------------------------------- requests ------------------------------ *)

\* A header value: to_str() succeeds only on visible ASCII.
Hdr(ascii, val) == [ascii |-> ascii, val |-> val]
CookiePart(name, val) == [name |-> name, val |-> val]

\* The parts of an /auth request the handler reads.
Request(audHdr, audQry, jwtHdr, cookie) ==
    [audHdr |-> audHdr, audQry |-> audQry, jwtHdr |-> jwtHdr, cookie |-> cookie]

\* An audience extraction that falls back to the empty string.
ExpectedAudienceOrDefault(r) ==
    IF IsSome(r.audHdr) /\ Unwrap(r.audHdr).ascii
    THEN Some(Unwrap(r.audHdr).val)
    ELSE IF IsSome(r.audQry) THEN r.audQry
    ELSE Some("")

\* The expected audience: x-expected-audience, else the aud query parameter.
ExpectedAudience(r) ==
    IF IsSome(r.audHdr) /\ Unwrap(r.audHdr).ascii
    THEN Some(Unwrap(r.audHdr).val)
    ELSE r.audQry

\* extract_jwt: cf-authorization, else the first CF_Authorization cookie part.
extract_jwt(r) ==
    IF IsSome(r.jwtHdr) /\ Unwrap(r.jwtHdr).ascii
    THEN Some(Unwrap(r.jwtHdr).val)
    ELSE IF IsSome(r.cookie) /\ Unwrap(r.cookie).ascii
    THEN LET parts == Unwrap(r.cookie).val
             hits == {i \in 1..Len(parts) : parts[i].name = "CF_Authorization"}
         IN  IF hits = {} THEN None
             ELSE Some(parts[CHOOSE i \in hits : \A j \in hits : i <= j].val)
    ELSE None

(* ------------------------------ responses ------------------------------ *)

NO_CONTENT == 204
UNAUTHORIZED == 401
OK == 200
INTERNAL_SERVER_ERROR == 500

\* create_response: the status with the five fixed headers.
create_response(status) ==
    [status |-> status,
     headers |-> {<<"connection", "keep-alive">>,
                  <<"keep-alive", "timeout=120, max=10000">>,
                  <<"cache-control", "no-cache, no-store, must-revalidate">>,
                  <<"pragma", "no-cache">>,
                  <<"expires", "0">>}]

(* ------------------------------ fetch_jwks ------------------------------ *)

\* What the HTTP GET of the JWKS URL comes back with: sent is FALSE on a
\* connection error or timeout, body is None when it is not a Jwks document.
HttpOutcome(sent, status, body) == [sent |-> sent, status |-> status, body |-> body]

\* StatusCode::is_success
is_success(status) == status >= 200 /\ status <= 299

\* fetch_jwks: Ok(keys) is Some(keys), Err(()) is None.
fetch_jwks(o) ==
    IF ~o.sent THEN None
    ELSE IF ~is_success(o.status) THEN None
    ELSE o.body

\* The outcomes a fetch can have when the provider publishes one of docs.
Outcomes(docs) ==
    {HttpOutcome(FALSE, 0, None), HttpOutcome(TRUE, 503, None),
     HttpOutcome(TRUE, 200, None)}
    \cup {HttpOutcome(TRUE, 200, Some(d)) : d \in docs}

(* ------------------------------- processes ----------------------------- *)

MainP == <<"main", 0>>
SchedP == <<"sched", 0>>
AdminP == <<"admin", 0>>
Req(i) == <<"req", i>>
ReqSet(n) == {Req(i) : i \in 1..n}
Reqs == ReqSet(NumReq)
\* The tasks when R are the /auth tasks.
Tasks(R) == {MainP, SchedP, AdminP} \cup R
Procs == Tasks(Reqs)
NoProc == <<"none", 0>>

VARIABLES
    env,        \* CF_TEAM_NAME: Some(name) or None
    pc,         \* where each task is
    jwks,       \* AppState.jwks: the map behind the RwLock
    wlock,      \* the task holding the write guard, or NoProc
    readers,    \* the tasks holding a read guard
    keys,       \* per task: the keys its fetch returned
    idx,        \* per task: position of the caching loop in keys
    last,       \* main and periodic task: result of the last refresh they called
    req,        \* per /auth task: the request it handles
    dkey,       \* per /auth task: the decoding key it resolved
    resp,       \* per handler task: the response it returned
    why,        \* per /auth task: what went to the log for its outcome
    fetches,    \* per /auth task: HTTP fetches its request made
    lookups,    \* per /auth task: map lookups its request made
    verifies,   \* per /auth task: calls of decode its request made
    now,        \* the wall clock, in seconds
    committed,  \* history: the key set of the last refresh that completed
    interval,   \* the periodic task's Interval: Some(next deadline), or None
    fired       \* history: Some([at, skipped]) for the interval's last tick

vars == <<env, pc, jwks, wlock, readers, keys, idx, last, req, dkey, resp, why,
          fetches, lookups, verifies, now, committed, interval, fired>>

\* The caching loop run to its end from an empty map.
RECURSIVE CacheFrom(_, _, _)
CacheFrom(m, ks, i) ==
    IF i > Len(ks) THEN m ELSE CacheFrom(CacheOne(m, ks[i]), ks, i + 1)
CacheAll(ks) == CacheFrom(EmptyMap, ks, 1)

NoRequest == Request(None, None, None, None)

\* The process is gone once main has panicked.
Alive == pc[MainP] # "panicked"
\* axum::serve is running.
Serving == pc[MainP] = "serving"

(* ---------------------------- initial states --------------------------- *)

\* No task has touched the lock or taken a request, with R the /auth tasks.
InitTasks(R) ==
    /\ wlock = NoProc
    /\ readers = {}
    /\ keys = [p \in Tasks(R) |-> <<>>]
    /\ idx = [p \in Tasks(R) |-> 0]
    /\ req = [p \in R |-> NoRequest]
    /\ dkey = [p \in R |-> None]
    /\ resp = [p \in Tasks(R) |-> None]
    /\ why = [p \in R |-> ""]
    /\ fetches = [p \in R |-> 0]
    /\ lookups = [p \in R |-> 0]
    /\ verifies = [p \in R |-> 0]
    /\ now = T0
    /\ interval = None
    /\ fired = None

\* main() is entered; AppState::new gives an empty map.
Init ==
    /\ InitTasks(Reqs)
    /\ env \in {Some(TeamName), None}
    /\ pc = [p \in Procs |->
                IF p = MainP THEN "config"
                ELSE IF p = SchedP THEN "unspawned" ELSE "idle"]
    /\ jwks = EmptyMap
    /\ committed = EmptyMap
    /\ last = [p \in {MainP, SchedP} |-> "none"]

(* --------------------------- handler answers --------------------------- *)

\* A 401 that tells the caller which input was missing.
MissingAudienceResponseTells ==
    [create_response(UNAUTHORIZED) EXCEPT
        !.headers = @ \cup {<<"www-authenticate", "expected audience required">>}]

\* auth_handler, no expected audience.
MissingAudienceResponse == create_response(UNAUTHORIZED)
\* auth_handler, no JWT in header or cookie.
MissingJwtResponse == create_response(UNAUTHORIZED)
\* auth_handler, validate_jwt returned Err.
ValidationFailedResponse == create_response(UNAUTHORIZED)
\* auth_handler, validate_jwt returned Ok.
ValidationOkResponse == create_response(NO_CONTENT)

\* The handler of task p returns r; reason is what it logged.
Answer(p, r, reason) ==
    /\ pc' = [pc EXCEPT ![p] = "done"]
    /\ resp' = [resp EXCEPT ![p] = Some(r)]
    /\ why' = [why EXCEPT ![p] = reason]

(* ------------------------- fetch_and_cache_keys ------------------------ *)

\* A periodic task that leaves its loop when a refresh fails.
SchedAfterStops(res) == IF res = "Err" THEN "stopped" ELSE "tick"

\* The periodic task's match on the result: both arms only log, and the loop
\* goes back to interval.tick().
SchedAfter(res) == "tick"

\* A main that gives up when the startup refresh fails.
MainAfterAborts(res) == IF res = "Err" THEN "panicked" ELSE "spawn"

\* main's `if let Err(()) = ...`: the failure is logged and main goes on to
\* start_key_refresh_task.
MainAfter(res) == "spawn"

\* fetch_and_cache_keys returned res ("Ok" / "Err") to its caller p, which
\* goes on: main to spawning the task, the periodic task to its next tick,
\* /refresh-keys to its response, validate_jwt to the retried lookup or Err.
AfterRefresh(p, res) ==
    /\ last' = IF p \in DOMAIN last THEN [last EXCEPT ![p] = res] ELSE last
    /\ IF p = MainP
       THEN pc' = [pc EXCEPT ![p] = MainAfter(res)] /\ UNCHANGED <<resp, why>>
       ELSE IF p = SchedP
       THEN pc' = [pc EXCEPT ![p] = SchedAfter(res)] /\ UNCHANGED <<resp, why>>
       ELSE IF p = AdminP
       THEN /\ pc' = [pc EXCEPT ![p] = "done"]
            /\ resp' = [resp EXCEPT ![p] =
                 Some(create_response(IF res = "Ok" THEN OK
                                      ELSE INTERNAL_SERVER_ERROR))]
            /\ UNCHANGED why
       ELSE IF res = "Err"
       THEN Answer(p, ValidationFailedResponse, "refresh failed")
       ELSE pc' = [pc EXCEPT ![p] = "rlock2"] /\ UNCHANGED <<resp, why>>

\* The fetch of task p comes back with a key set: the task goes on to take
\* the write lock.
FetchOk(p, o) ==
    /\ Alive
    /\ pc[p] = "fetch"
    /\ IsSome(fetch_jwks(o))
    /\ keys' = [keys EXCEPT ![p] = Unwrap(fetch_jwks(o))]
    /\ pc' = [pc EXCEPT ![p] = "wlock"]
    /\ UNCHANGED <<interval, fired, env, jwks, wlock, readers, idx, last, req, dkey, resp, why,
                   fetches, lookups, verifies, now, committed>>

\* A refresh that empties the map before it knows the fetch succeeded.
FetchErrClears(p, o) ==
    /\ Alive
    /\ pc[p] = "fetch"
    /\ IsNone(fetch_jwks(o))
    /\ AfterRefresh(p, "Err")
    /\ jwks' = EmptyMap
    /\ UNCHANGED <<interval, fired, env, wlock, readers, keys, idx, req, dkey,
                   fetches, lookups, verifies, now, committed>>

\* The fetch of task p fails: `?` returns Err before the lock is touched.
FetchErr(p, o) ==
    /\ Alive
    /\ pc[p] = "fetch"
    /\ IsNone(fetch_jwks(o))
    /\ AfterRefresh(p, "Err")
    /\ UNCHANGED <<interval, fired, env, jwks, wlock, readers, keys, idx, req, dkey,
                   fetches, lookups, verifies, now, committed>>

\* RwLock::write is granted when no guard is out.
WriteGranted == wlock = NoProc /\ readers = {}
\* A map read without regard to the writer.
ReadGrantedAlways == TRUE

\* RwLock::read is granted when no write guard is out.
ReadGranted == wlock = NoProc

\* A refresh that adds to the map instead of replacing it.
WriteLockKeeps(p) ==
    /\ Alive
    /\ pc[p] = "wlock"
    /\ WriteGranted
    /\ wlock' = p
    /\ idx' = [idx EXCEPT ![p] = 1]
    /\ pc' = [pc EXCEPT ![p] = "insert"]
    /\ UNCHANGED <<interval, fired, env, jwks, readers, keys, last, req,
                   dkey, resp, why, fetches, lookups, verifies, now, committed>>

\* self.jwks.write().await, then jwks.clear().
WriteLock(p) ==
    /\ Alive
    /\ pc[p] = "wlock"
    /\ WriteGranted
    /\ wlock' = p
    /\ jwks' = EmptyMap
    /\ idx' = [idx EXCEPT ![p] = 1]
    /\ pc' = [pc EXCEPT ![p] = "insert"]
    /\ UNCHANGED <<interval, fired, env, readers, keys, last, req, dkey, resp, why,
                   fetches, lookups, verifies, now, committed>>

\* One iteration of `for jwk in &keys`.
InsertKey(p) ==
    /\ Alive
    /\ pc[p] = "insert"
    /\ idx[p] <= Len(keys[p])
    /\ jwks' = CacheOne(jwks, keys[p][idx[p]])
    /\ idx' = [idx EXCEPT ![p] = idx[p] + 1]
    /\ UNCHANGED <<interval, fired, env, pc, wlock, readers, keys, last, req, dkey, resp, why,
                   fetches, lookups, verifies, now, committed>>

\* The loop is over: Ok(()) is returned and the write guard dropped.
WriteUnlock(p) ==
    /\ Alive
    /\ pc[p] = "insert"
    /\ idx[p] > Len(keys[p])
    /\ wlock' = NoProc
    /\ committed' = CacheAll(keys[p])
    /\ keys' = [keys EXCEPT ![p] = <<>>]
    /\ idx' = [idx EXCEPT ![p] = 0]
    /\ AfterRefresh(p, "Ok")
    /\ UNCHANGED <<interval, fired, env, jwks, readers, req, dkey,
                   fetches, lookups, verifies, now>>

(* --------------------------------- main -------------------------------- *)

\* AppConfig::from_env succeeds; the startup refresh is called.
ConfigOk ==
    /\ pc[MainP] = "config"
    /\ IsSome(env)
    /\ pc' = [pc EXCEPT ![MainP] = "fetch"]
    /\ UNCHANGED <<interval, fired, env, jwks, wlock, readers, keys, idx, last, req, dkey, resp,
                   why, fetches, lookups, verifies, now, committed>>

\* AppState::new: Client::builder()...build() fails and expect() panics.
ClientBuildFail ==
    /\ pc[MainP] = "config"
    /\ IsSome(env)
    /\ pc' = [pc EXCEPT ![MainP] = "panicked"]
    /\ UNCHANGED <<interval, fired, env, jwks, wlock, readers, keys, idx, last,
                   req, dkey, resp, why, fetches, lookups, verifies, now,
                   committed>>

\* A startup that falls back to a default team when CF_TEAM_NAME is not set.
ConfigMissingDefaults ==
    /\ pc[MainP] = "config"
    /\ IsNone(env)
    /\ pc' = [pc EXCEPT ![MainP] = "fetch"]
    /\ UNCHANGED <<interval, fired, env, jwks, wlock, readers, keys, idx, last,
                   req, dkey, resp, why, fetches, lookups, verifies, now,
                   committed>>

\* CF_TEAM_NAME is not set: expect() panics.
ConfigMissing ==
    /\ pc[MainP] = "config"
    /\ IsNone(env)
    /\ pc' = [pc EXCEPT ![MainP] = "panicked"]
    /\ UNCHANGED <<interval, fired, env, jwks, wlock, readers, keys, idx, last, req, dkey, resp,
                   why, fetches, lookups, verifies, now, committed>>

\* start_key_refresh_task: tokio::spawn of the periodic task.
SpawnTask ==
    /\ pc[MainP] = "spawn"
    /\ pc' = [pc EXCEPT ![MainP] = "bind", ![SchedP] = "tick"]
    /\ UNCHANGED <<interval, fired, env, jwks, wlock, readers, keys, idx, last, req, dkey, resp,
                   why, fetches, lookups, verifies, now, committed>>

\* TcpListener::bind succeeds; axum::serve starts accepting.
BindOk ==
    /\ pc[MainP] = "bind"
    /\ pc' = [pc EXCEPT ![MainP] = "serving"]
    /\ UNCHANGED <<interval, fired, env, jwks, wlock, readers, keys, idx, last, req, dkey, resp,
                   why, fetches, lookups, verifies, now, committed>>

\* TcpListener::bind fails: unwrap() panics.
BindFail ==
    /\ pc[MainP] = "bind"
    /\ pc' = [pc EXCEPT ![MainP] = "panicked"]
    /\ UNCHANGED <<interval, fired, env, jwks, wlock, readers, keys, idx, last, req, dkey, resp,
                   why, fetches, lookups, verifies, now, committed>>

(* ---------------------------- periodic task ---------------------------- *)

\* interval.tick().await completes; the refresh is called.
SchedTick ==
    /\ Alive
    /\ pc[SchedP] = "tick"
    /\ pc' = [pc EXCEPT ![SchedP] = "fetch"]
    /\ UNCHANGED <<interval, fired, env, jwks, wlock, readers, keys, idx, last, req, dkey, resp,
                   why, fetches, lookups, verifies, now, committed>>

(* ----------------------------- /refresh-keys --------------------------- *)

\* A refresh that takes the write lock before it fetches.
AdminStartLocksFirst ==
    /\ Serving
    /\ pc[AdminP] = "idle"
    /\ WriteGranted
    /\ wlock' = AdminP
    /\ pc' = [pc EXCEPT ![AdminP] = "fetch"]
    /\ UNCHANGED <<interval, fired, env, jwks, readers, keys, idx, last, req,
                   dkey, resp, why, fetches, lookups, verifies, now, committed>>

\* refresh_keys_handler is entered; the refresh is called.
AdminStart ==
    /\ Serving
    /\ pc[AdminP] = "idle"
    /\ pc' = [pc EXCEPT ![AdminP] = "fetch"]
    /\ UNCHANGED <<interval, fired, env, jwks, wlock, readers, keys, idx, last, req, dkey, resp,
                   why, fetches, lookups, verifies, now, committed>>

(* --------------------------------- /auth ------------------------------- *)

\* How far auth_handler and validate_jwt get on request q before the first
\* lock acquisition: the early return taken, or "lookup".
Stage(q) ==
    IF IsNone(ExpectedAudience(q)) THEN "missing audience"
    ELSE IF IsNone(extract_jwt(q)) THEN "no jwt"
    ELSE IF IsNone(decode_header(Unwrap(extract_jwt(q)))) THEN "bad header"
    ELSE IF IsNone(Unwrap(decode_header(Unwrap(extract_jwt(q)))).kid) THEN "no kid"
    ELSE "lookup"

TokenOf(p) == Unwrap(extract_jwt(req[p]))
AudOf(p) == Unwrap(ExpectedAudience(req[p]))
KidOf(p) == Unwrap(Unwrap(decode_header(TokenOf(p))).kid)

\* Task p takes request q off the connection.
Receive(p, q) ==
    /\ Serving
    /\ pc[p] = "idle"
    /\ req' = [req EXCEPT ![p] = q]
    /\ dkey' = [dkey EXCEPT ![p] = None]
    /\ fetches' = [fetches EXCEPT ![p] = 0]
    /\ lookups' = [lookups EXCEPT ![p] = 0]
    /\ verifies' = [verifies EXCEPT ![p] = 0]

\* Neither x-expected-audience nor ?aud=: 401 at once.
AuthNoAud(p, q) ==
    /\ Receive(p, q)
    /\ Stage(q) = "missing audience"
    /\ Answer(p, MissingAudienceResponse, "missing audience")
    /\ UNCHANGED <<interval, fired, env, jwks, wlock, readers, keys, idx, last, now, committed>>

\* No JWT in cf-authorization or the cookie: 401.
AuthNoJwt(p, q) ==
    /\ Receive(p, q)
    /\ Stage(q) = "no jwt"
    /\ Answer(p, MissingJwtResponse, "no jwt")
    /\ UNCHANGED <<interval, fired, env, jwks, wlock, readers, keys, idx, last, now, committed>>

\* validate_jwt: decode_header fails.
AuthBadHeader(p, q) ==
    /\ Receive(p, q)
    /\ Stage(q) = "bad header"
    /\ Answer(p, ValidationFailedResponse, "bad header")
    /\ UNCHANGED <<interval, fired, env, jwks, wlock, readers, keys, idx, last, now, committed>>

\* validate_jwt: the header has no kid.
AuthNoKid(p, q) ==
    /\ Receive(p, q)
    /\ Stage(q) = "no kid"
    /\ Answer(p, ValidationFailedResponse, "no kid")
    /\ UNCHANGED <<interval, fired, env, jwks, wlock, readers, keys, idx, last, now, committed>>

\* validate_jwt reaches the first state.jwks.read().await.
AuthToLookup(p, q) ==
    /\ Receive(p, q)
    /\ Stage(q) = "lookup"
    /\ pc' = [pc EXCEPT ![p] = "rlock1"]
    /\ resp' = [resp EXCEPT ![p] = None]
    /\ why' = [why EXCEPT ![p] = ""]
    /\ UNCHANGED <<interval, fired, env, jwks, wlock, readers, keys, idx, last, now, committed>>

\* state.jwks.read().await is granted (first lookup, or the retry).
ReadLock(p) ==
    /\ Alive
    /\ pc[p] \in {"rlock1", "rlock2"}
    /\ ReadGranted
    /\ readers' = readers \cup {p}
    /\ pc' = [pc EXCEPT ![p] = IF pc[p] = "rlock1" THEN "get1" ELSE "get2"]
    /\ UNCHANGED <<interval, fired, env, jwks, wlock, keys, idx, last, req, dkey, resp, why,
                   fetches, lookups, verifies, now, committed>>

\* First lookup, key cached: the guard is dropped, validation goes on.
Get1Hit(p) ==
    /\ Alive
    /\ pc[p] = "get1"
    /\ IsSome(MapGet(jwks, KidOf(p)))
    /\ readers' = readers \ {p}
    /\ lookups' = [lookups EXCEPT ![p] = lookups[p] + 1]
    /\ dkey' = [dkey EXCEPT ![p] = MapGet(jwks, KidOf(p))]
    /\ pc' = [pc EXCEPT ![p] = "decode"]
    /\ UNCHANGED <<interval, fired, env, jwks, wlock, keys, idx, last, req, resp, why,
                   fetches, verifies, now, committed>>

\* A miss whose read guard stays alive while the refresh is called.
Get1MissKeepsGuard(p) ==
    /\ Alive
    /\ pc[p] = "get1"
    /\ IsNone(MapGet(jwks, KidOf(p)))
    /\ lookups' = [lookups EXCEPT ![p] = lookups[p] + 1]
    /\ fetches' = [fetches EXCEPT ![p] = fetches[p] + 1]
    /\ pc' = [pc EXCEPT ![p] = "fetch"]
    /\ UNCHANGED <<interval, fired, env, jwks, wlock, readers, keys, idx, last,
                   req, dkey, resp, why, verifies, now, committed>>

\* A miss that joins a refresh another request has in progress instead of
\* starting its own.
Get1MissJoins(p) ==
    /\ Alive
    /\ pc[p] = "get1"
    /\ IsNone(MapGet(jwks, KidOf(p)))
    /\ readers' = readers \ {p}
    /\ lookups' = [lookups EXCEPT ![p] = lookups[p] + 1]
    /\ IF \E q \in DOMAIN req \ {p} : pc[q] \in {"fetch", "wlock", "insert"}
       THEN /\ pc' = [pc EXCEPT ![p] = "rlock2"]
            /\ UNCHANGED fetches
       ELSE /\ pc' = [pc EXCEPT ![p] = "fetch"]
            /\ fetches' = [fetches EXCEPT ![p] = fetches[p] + 1]
    /\ UNCHANGED <<interval, fired, env, jwks, wlock, keys, idx, last, req, dkey,
                   resp, why, verifies, now, committed>>

\* First lookup, key not cached: the guard is dropped and the on-demand
\* refresh is called (its HTTP request goes out).
Get1Miss(p) ==
    /\ Alive
    /\ pc[p] = "get1"
    /\ IsNone(MapGet(jwks, KidOf(p)))
    /\ readers' = readers \ {p}
    /\ lookups' = [lookups EXCEPT ![p] = lookups[p] + 1]
    /\ fetches' = [fetches EXCEPT ![p] = fetches[p] + 1]
    /\ pc' = [pc EXCEPT ![p] = "fetch"]
    /\ UNCHANGED <<interval, fired, env, jwks, wlock, keys, idx, last, req, dkey, resp, why,
                   verifies, now, committed>>

\* A retry that goes by the result of the first lookup.
Get2HitStale(p) ==
    /\ Alive
    /\ pc[p] = "get2"
    /\ IsSome(MapGet(jwks, KidOf(p)))
    /\ readers' = readers \ {p}
    /\ lookups' = [lookups EXCEPT ![p] = lookups[p] + 1]
    /\ Answer(p, ValidationFailedResponse, "unknown kid")
    /\ UNCHANGED <<interval, fired, env, jwks, wlock, keys, idx, last, req, dkey,
                   fetches, verifies, now, committed>>

\* Retried lookup after a successful refresh, key now cached.
Get2Hit(p) ==
    /\ Alive
    /\ pc[p] = "get2"
    /\ IsSome(MapGet(jwks, KidOf(p)))
    /\ readers' = readers \ {p}
    /\ lookups' = [lookups EXCEPT ![p] = lookups[p] + 1]
    /\ dkey' = [dkey EXCEPT ![p] = MapGet(jwks, KidOf(p))]
    /\ pc' = [pc EXCEPT ![p] = "decode"]
    /\ UNCHANGED <<interval, fired, env, jwks, wlock, keys, idx, last, req, resp, why,
                   fetches, verifies, now, committed>>

\* A retried lookup that refreshes again when the key is still missing.
Get2MissRetries(p) ==
    /\ Alive
    /\ pc[p] = "get2"
    /\ IsNone(MapGet(jwks, KidOf(p)))
    /\ readers' = readers \ {p}
    /\ lookups' = [lookups EXCEPT ![p] = lookups[p] + 1]
    /\ fetches' = [fetches EXCEPT ![p] = fetches[p] + 1]
    /\ pc' = [pc EXCEPT ![p] = "fetch"]
    /\ UNCHANGED <<interval, fired, env, jwks, wlock, keys, idx, last, req, dkey, resp, why,
                   verifies, now, committed>>

\* Retried lookup, key still missing: Err.
Get2Miss(p) ==
    /\ Alive
    /\ pc[p] = "get2"
    /\ IsNone(MapGet(jwks, KidOf(p)))
    /\ readers' = readers \ {p}
    /\ lookups' = [lookups EXCEPT ![p] = lookups[p] + 1]
    /\ Answer(p, ValidationFailedResponse, "unknown kid")
    /\ UNCHANGED <<interval, fired, env, jwks, wlock, keys, idx, last, req, dkey,
                   fetches, verifies, now, committed>>

\* decode and the two additional claim tests pass: 204.
DecodeAccept(p) ==
    /\ Alive
    /\ pc[p] = "decode"
    /\ ValidateWithKey(TokenOf(p), Unwrap(dkey[p]), AudOf(p), now) = "ok"
    /\ verifies' = [verifies EXCEPT ![p] = verifies[p] + 1]
    /\ Answer(p, ValidationOkResponse, "ok")
    /\ UNCHANGED <<interval, fired, env, jwks, wlock, readers, keys, idx, last, req, dkey,
                   fetches, lookups, now, committed>>

\* A validator that refreshes the keys when a cached key does not verify.
DecodeRejectRefreshes(p) ==
    /\ Alive
    /\ pc[p] = "decode"
    /\ ValidateWithKey(TokenOf(p), Unwrap(dkey[p]), AudOf(p), now) # "ok"
    /\ verifies' = [verifies EXCEPT ![p] = verifies[p] + 1]
    /\ IF fetches[p] = 0
       THEN /\ pc' = [pc EXCEPT ![p] = "fetch"]
            /\ fetches' = [fetches EXCEPT ![p] = 1]
            /\ UNCHANGED <<resp, why>>
       ELSE /\ Answer(p, ValidationFailedResponse,
                      ValidateWithKey(TokenOf(p), Unwrap(dkey[p]), AudOf(p), now))
            /\ UNCHANGED fetches
    /\ UNCHANGED <<interval, fired, env, jwks, wlock, readers, keys, idx, last,
                   req, dkey, lookups, now, committed>>

\* decode or one of the additional claim tests fails: 401.
DecodeReject(p) ==
    /\ Alive
    /\ pc[p] = "decode"
    /\ ValidateWithKey(TokenOf(p), Unwrap(dkey[p]), AudOf(p), now) # "ok"
    /\ verifies' = [verifies EXCEPT ![p] = verifies[p] + 1]
    /\ Answer(p, ValidationFailedResponse,
              ValidateWithKey(TokenOf(p), Unwrap(dkey[p]), AudOf(p), now))
    /\ UNCHANGED <<interval, fired, env, jwks, wlock, readers, keys, idx, last, req, dkey,
                   fetches, lookups, now, committed>>

\* The response of task p is written out; the task is free for the next
\* request.
Finish(p) ==
    /\ Alive
    /\ pc[p] = "done"
    /\ pc' = [pc EXCEPT ![p] = "idle"]
    /\ resp' = [resp EXCEPT ![p] = None]
    /\ req' = IF p \in DOMAIN req THEN [req EXCEPT ![p] = NoRequest] ELSE req
    /\ dkey' = IF p \in DOMAIN dkey THEN [dkey EXCEPT ![p] = None] ELSE dkey
    /\ why' = IF p \in DOMAIN why THEN [why EXCEPT ![p] = ""] ELSE why
    /\ fetches' = IF p \in DOMAIN fetches THEN [fetches EXCEPT ![p] = 0] ELSE fetches
    /\ lookups' = IF p \in DOMAIN lookups THEN [lookups EXCEPT ![p] = 0] ELSE lookups
    /\ verifies' = IF p \in DOMAIN verifies THEN [verifies EXCEPT ![p] = 0] ELSE verifies
    /\ UNCHANGED <<interval, fired, env, jwks, wlock, readers, keys, idx, last, now, committed>>

\* A second passes.
ClockTick ==
    /\ now < T0 + MaxTicks
    /\ now' = now + 1
    /\ UNCHANGED <<interval, fired, env, pc, jwks, wlock, readers, keys, idx, last, req, dkey,
                   resp, why, fetches, lookups, verifies, committed>>

(* --------------------------- inputs and specs -------------------------- *)

\* An RSA signing key as Cloudflare publishes it.
GoodJwk(kid, n) == Jwk(kid, n, "AQAB", "RSA", "RS256", "sig")
PubKey(n) == [n |-> n, e |-> "AQAB"]

\* Two published key sets: the second drops k1 and rotates k2.
DocsCore ==
    {<<GoodJwk("k1", "nA"), GoodJwk("k2", "nB")>>,
     <<GoodJwk("k2", "nC")>>}

GoodToken(kid, n) ==
    Token(TRUE, Some(kid), "RS256", PubKey(n), T0 + 3600, cf_issuer, AudStr("svc-a"))
HdrRequest(aud, tok) == Request(Some(Hdr(TRUE, aud)), None, Some(Hdr(TRUE, tok)), None)

\* Requests of the concurrent specification: a token of each published kid
\* (k1 is dropped and k2 re-keyed by the second key set), and one request for
\* each early return of the handler.
RequestsCore ==
    {HdrRequest("svc-a", GoodToken("k1", "nA")),
     HdrRequest("svc-a", GoodToken("k2", "nB")),
     Request(None, None, Some(Hdr(TRUE, GoodToken("k1", "nA"))), None),
     Request(Some(Hdr(TRUE, "svc-a")), None, None, None),
     HdrRequest("svc-a", [GoodToken("k1", "nA") EXCEPT !.hdrOk = FALSE]),
     HdrRequest("svc-a", [GoodToken("k1", "nA") EXCEPT !.kid = None])}

\* The steps of fetch_and_cache_keys in task p.
RefreshStep(p, docs) ==
    \/ pc[p] = "fetch" /\ \E o \in Outcomes(docs) : FetchOk(p, o)
    \/ pc[p] = "fetch" /\ \E o \in Outcomes(docs) : FetchErr(p, o)
    \/ WriteLock(p)
    \/ InsertKey(p)
    \/ WriteUnlock(p)

\* The steps of auth_handler / validate_jwt in task p.
AuthStep(p, requests) ==
    \/ pc[p] = "idle" /\ \E q \in requests : AuthNoAud(p, q)
    \/ pc[p] = "idle" /\ \E q \in requests : AuthNoJwt(p, q)
    \/ pc[p] = "idle" /\ \E q \in requests : AuthBadHeader(p, q)
    \/ pc[p] = "idle" /\ \E q \in requests : AuthNoKid(p, q)
    \/ pc[p] = "idle" /\ \E q \in requests : AuthToLookup(p, q)
    \/ ReadLock(p)
    \/ Get1Hit(p)
    \/ Get1Miss(p)
    \/ Get2Hit(p)
    \/ Get2Miss(p)
    \/ DecodeAccept(p)
    \/ DecodeReject(p)
    \/ Finish(p)

MainStep ==
    ConfigOk \/ ConfigMissing \/ ClientBuildFail \/ SpawnTask \/ BindOk \/ BindFail

Next ==
    \/ MainStep
    \/ SchedTick
    \/ AdminStart
    \/ Finish(AdminP)
    \/ \E p \in Procs : RefreshStep(p, DocsCore)
    \/ \E p \in Reqs : AuthStep(p, RequestsCore)

Spec == Init /\ [][Next]_vars

(* ---------------- specification of the periodic task ------------------ *)

\* The concurrent system with one /auth task.
NextFair ==
    \/ MainStep
    \/ SchedTick
    \/ AdminStart
    \/ Finish(AdminP)
    \/ \E p \in Tasks(ReqSet(1)) : RefreshStep(p, DocsCore)
    \/ \E p \in ReqSet(1) : AuthStep(p, RequestsCore)

\* The timer fires, a fetch returns (reqwest's 30 s timeout), a guard holder
\* runs on, and the RwLock serves the periodic task's write() (tokio's lock
\* is fair).
Fairness ==
    /\ WF_vars(SchedTick)
    /\ WF_vars(\E o \in Outcomes(DocsCore) : FetchOk(SchedP, o) \/ FetchErr(SchedP, o))
    /\ SF_vars(WriteLock(SchedP))
    /\ \A p \in Tasks(ReqSet(1)) : WF_vars(InsertKey(p) \/ WriteUnlock(p))
    /\ \A p \in ReqSet(1) : WF_vars(Get1Hit(p) \/ Get1Miss(p) \/ Get2Hit(p) \/ Get2Miss(p))

InitFair ==
    /\ InitTasks(ReqSet(1))
    /\ env \in {Some(TeamName), None}
    /\ pc = [p \in Tasks(ReqSet(1)) |->
                IF p = MainP THEN "config"
                ELSE IF p = SchedP THEN "unspawned" ELSE "idle"]
    /\ jwks = EmptyMap
    /\ committed = EmptyMap
    /\ last = [p \in {MainP, SchedP} |-> "none"]

FairSpec == InitFair /\ [][NextFair]_vars /\ Fairness

(* ------------------- specification of the key filter ------------------- *)

\* The candidates a key set is made of: two kids, two moduli and one that is
\* not base64url, and every combination of key type, algorithm and use.
JwkCands ==
    {Jwk(kid, n, "AQAB", kty, alg, use) :
        kid \in {"k1", "k2"}, n \in {"nA", "nB", NotBase64},
        kty \in {"RSA", "EC"}, alg \in {"RS256", "ES256"}, use \in {"sig", "enc"}}

\* Every key set of at most MaxKeys candidates.
DocsFilter == UNION {[1..n -> JwkCands] : n \in 0..MaxKeys}

\* The service is up (startup done, periodic task spawned and yet to fire)
\* with R the /auth tasks and m the map the startup refresh left.
InitServing(R, m) ==
    /\ InitTasks(R)
    /\ env = Some(TeamName)
    /\ pc = [p \in Tasks(R) |->
                IF p = MainP THEN "serving"
                ELSE IF p = SchedP THEN "tick" ELSE "idle"]
    /\ jwks = m
    /\ committed = m
    /\ last = [p \in {MainP, SchedP} |->
                IF p = SchedP THEN "none"
                ELSE IF m = EmptyMap THEN "Err" ELSE "Ok"]

InitFilter ==
    \E m \in {EmptyMap, CacheAll(<<GoodJwk("k1", "nA"), GoodJwk("k2", "nB")>>)} :
        InitServing(Reqs, m)

\* /refresh-keys is called, the provider answering with any key set.
NextFilter ==
    \/ AdminStart
    \/ RefreshStep(AdminP, DocsFilter)

SpecFilter == InitFilter /\ [][NextFilter]_vars

(* -------------------- specification of one validation ------------------ *)

KeyA == PubKey("nA")
Forged == PubKey("forged")
OtherIssuer == "https://evil.cloudflareaccess.com"

\* Tokens: each field takes a good value and the bad ones of its kind.
TokensV ==
    {Token(h, k, a, sg, x, i, au) :
        h \in BOOLEAN, k \in {None, Some("k1"), Some("k9")},
        a \in {"RS256", "HS256"}, sg \in {KeyA, Forged},
        x \in {T0 + 3600, T0 - Leeway, T0 - Leeway - 1},
        i \in {cf_issuer, OtherIssuer},
        au \in {AudStr("svc-a"), AudSeq(<<"svc-a", "svc-b">>),
                AudSeq(<<"svc-b", "svc-a">>), AudSeq(<<>>)}}

ValidToken == Token(TRUE, Some("k1"), "RS256", KeyA, T0 + 3600, cf_issuer, AudStr("svc-a"))

\* Requests: every token with either expected audience in the header or with
\* no audience at all, and the other ways of carrying audience and token.
RequestsV ==
    {HdrRequest(a, t) : a \in {"svc-a", "svc-b"}, t \in TokensV}
    \cup {Request(None, None, Some(Hdr(TRUE, t)), None) : t \in TokensV}
    \cup {Request(None, Some("svc-a"), Some(Hdr(TRUE, ValidToken)), None),
          Request(Some(Hdr(FALSE, "svc-a")), None, Some(Hdr(TRUE, ValidToken)), None),
          Request(Some(Hdr(FALSE, "svc-b")), Some("svc-a"), Some(Hdr(TRUE, ValidToken)), None),
          Request(Some(Hdr(TRUE, "svc-a")), None, None, None),
          Request(Some(Hdr(TRUE, "svc-a")), None, None,
                  Some(Hdr(TRUE, <<CookiePart("session", ValidToken),
                                   CookiePart("CF_Authorization", ValidToken)>>))),
          Request(Some(Hdr(TRUE, "svc-a")), None, Some(Hdr(FALSE, ValidToken)),
                  Some(Hdr(TRUE, <<CookiePart("session", ValidToken)>>)))}

\* The key sets the provider serves: k9 is published only by the second.
DocsV ==
    {<<GoodJwk("k1", "nA")>>,
     <<GoodJwk("k1", "nA"), GoodJwk("k9", "nA")>>}

InitValidate ==
    \E m \in {EmptyMap, CacheAll(<<GoodJwk("k1", "nA")>>)} :
        InitServing(ReqSet(1), m)

\* One /auth task handles request after request while the clock runs.
NextValidate ==
    \/ \E p \in ReqSet(1) : AuthStep(p, RequestsV)
    \/ \E p \in ReqSet(1) : RefreshStep(p, DocsV)
    \/ ClockTick

SpecValidate == InitValidate /\ [][NextValidate]_vars

(* ------------------ specification of a pair of requests ---------------- *)

\* One request for each way an /auth request is rejected, and a good one.
RequestsPair ==
    {HdrRequest("svc-a", ValidToken),
     Request(None, None, Some(Hdr(TRUE, ValidToken)), None),
     Request(Some(Hdr(TRUE, "svc-a")), None, None, None),
     HdrRequest("svc-a", [ValidToken EXCEPT !.hdrOk = FALSE]),
     HdrRequest("svc-a", [ValidToken EXCEPT !.kid = None]),
     HdrRequest("svc-a", [ValidToken EXCEPT !.kid = Some("k9")]),
     HdrRequest("svc-a", [ValidToken EXCEPT !.sig = Forged]),
     HdrRequest("svc-a", [ValidToken EXCEPT !.exp = T0 - Leeway - 1]),
     HdrRequest("svc-a", [ValidToken EXCEPT !.alg = "HS256"]),
     HdrRequest("svc-a", [ValidToken EXCEPT !.iss = OtherIssuer]),
     HdrRequest("svc-b", ValidToken),
     HdrRequest("svc-b", [ValidToken EXCEPT !.aud = AudSeq(<<"svc-a", "svc-b">>)])}

InitPair == InitServing(ReqSet(2), CacheAll(<<GoodJwk("k1", "nA")>>))

\* Two /auth tasks run side by side.
NextPair ==
    \/ \E p \in ReqSet(2) : AuthStep(p, RequestsPair)
    \/ \E p \in ReqSet(2) : RefreshStep(p, DocsV)

SpecPair == InitPair /\ [][NextPair]_vars

(* ================================ claims =============================== *)

\* C1: whenever a task holds a read guard (a lookup is reading the map), no
\* refresh is writing and the map is exactly the key set of the last refresh
\* that completed, or the empty initial map: never a cleared, partly filled
\* or mixed map.
C1_LookupSeesOneSnapshot ==
    \A p \in readers :
        /\ wlock = NoProc
        /\ jwks = committed
        /\ \/ committed = EmptyMap
           \/ \E d \in DocsCore : committed = CacheAll(d)

\* A lookup reads a filled map while another task waits to write a refresh.
C1_Witness ==
    \E p \in readers : \E w \in Procs :
        /\ pc[w] = "wlock"
        /\ w # p
        /\ jwks # EmptyMap

\* C2: a refresh that fails consists of the call and the failed fetch, and
\* neither step changes the map; the failing task never holds the write lock.
C2_FailedRefreshKeepsMap ==
    /\ [](\A p \in Procs : pc[p] = "fetch" => wlock # p)
    /\ [][\A p \in Procs :
            /\ (pc[p] # "fetch" /\ pc'[p] = "fetch") => jwks' = jwks
            /\ (pc[p] = "fetch" /\ pc'[p] \notin {"fetch", "wlock"}) =>
                    (jwks' = jwks /\ wlock' = wlock)]_vars

\* An on-demand refresh has failed and the map still holds keys.
C2_Witness ==
    \E p \in Reqs :
        /\ pc[p] = "done"
        /\ why[p] = "refresh failed"
        /\ jwks # EmptyMap

\* C5: a request makes at most one fetch; a first lookup that misses is
\* followed by exactly one fetch; and a request rejected for its unknown kid
\* (refresh failed, or kid still missing) has made exactly one.
C5_OneRefreshPerMiss ==
    /\ [](\A p \in Reqs :
            /\ fetches[p] <= 1
            /\ (pc[p] = "done" /\ why[p] \in {"refresh failed", "unknown kid"})
                    => fetches[p] = 1
            /\ (pc[p] \in {"fetch", "wlock", "insert", "rlock2", "get2"})
                    => fetches[p] = 1)
    /\ [][\A p \in Reqs :
            (pc[p] = "get1" /\ pc'[p] # "get1" /\ IsNone(MapGet(jwks, KidOf(p))))
                => (pc'[p] = "fetch" /\ fetches[p] = 0 /\ fetches'[p] = 1)]_vars

\* A request was rejected because its kid was still unknown after its one
\* refresh.
C5_Witness ==
    \E p \in Reqs :
        /\ pc[p] = "done"
        /\ why[p] = "unknown kid"
        /\ fetches[p] = 1
        /\ lookups[p] = 2

\* The caching loop of task p has run over every fetched key: the map is
\* what the refresh leaves behind.
LoopDone(p) == pc[p] = "insert" /\ idx[p] > Len(keys[p])

\* The key a candidate stands for.
KeyOf(jwk) == [n |-> jwk.n, e |-> jwk.e]
\* RSA-family, RS256, marked for signature use.
ThreeConstraints(jwk) == jwk.kty = "RSA" /\ jwk.alg = "RS256" /\ jwk.use_ = "sig"
\* ... and modulus and exponent are base64url.
FourConstraints(jwk) ==
    ThreeConstraints(jwk) /\ jwk.n # NotBase64 /\ jwk.e # NotBase64

\* C3 as stated: after a refresh, a candidate's kid maps to the candidate's
\* key iff the candidate is RSA, RS256 and for signature use.
C3_ThreeConstraintFilter ==
    \A p \in Procs : LoopDone(p) =>
        \A i \in 1..Len(keys[p]) :
            (MapGet(jwks, keys[p][i].kid) = Some(KeyOf(keys[p][i])))
                <=> ThreeConstraints(keys[p][i])

\* C3 amended: a candidate whose kid no other candidate of the document
\* carries is retained iff it is RSA, RS256, for signature use and its key
\* material is well formed; a kid carried by several candidates maps to the
\* key of the last of them that passes the four tests (to nothing if none
\* does).  Excluded candidates play no part in either condition.
C3_FourConstraintFilter ==
    \A p \in Procs : LoopDone(p) =>
        LET ks == keys[p]
            Usable(kid) == {j \in 1..Len(ks) : ks[j].kid = kid /\ FourConstraints(ks[j])}
            LastOf(S) == CHOOSE j \in S : \A k \in S : k <= j
        IN  /\ \A i \in 1..Len(ks) :
                  (\A j \in 1..Len(ks) : ks[j].kid = ks[i].kid => j = i) =>
                      ((MapGet(jwks, ks[i].kid) = Some(KeyOf(ks[i])))
                            <=> FourConstraints(ks[i]))
            /\ \A i \in 1..Len(ks) :
                  MapGet(jwks, ks[i].kid) =
                      IF Usable(ks[i].kid) = {} THEN None
                      ELSE Some(KeyOf(ks[LastOf(Usable(ks[i].kid))]))
            /\ \A en \in jwks : \E i \in 1..Len(ks) : ks[i].kid = en.kid

\* A refresh has cached one candidate and excluded another that passes the
\* three property tests but whose modulus does not decode.
C3_Witness ==
    /\ LoopDone(AdminP)
    /\ jwks # EmptyMap
    /\ \E i \in 1..Len(keys[AdminP]) :
          /\ ThreeConstraints(keys[AdminP][i])
          /\ keys[AdminP][i].n = NotBase64
          /\ IsNone(MapGet(jwks, keys[AdminP][i].kid))

\* validate_jwt of task p returns in this step.
Decides(p) == pc[p] = "decode" /\ pc'[p] = "done"
Accepted(r) == IsSome(r) /\ Unwrap(r).status = NO_CONTENT
Rejected(r) == IsSome(r) /\ Unwrap(r).status = UNAUTHORIZED

\* The five properties of a token the validator has resolved a key for.
SigValid(p) == TokenOf(p).sig = Unwrap(dkey[p])
Unexpired(p) == TokenOf(p).exp > now
IssValid(p) == TokenOf(p).iss = cf_issuer
AudValid(p) ==
    /\ Len(TokenOf(p).aud.vals) > 0
    /\ TokenOf(p).aud.vals[1] = AudOf(p)
AlgValid(p) == TokenOf(p).alg = "RS256"

\* How many of signature, issuer, audience and algorithm are invalid.
OthersInvalid(p) ==
    Cardinality({a \in {"sig", "iss", "aud", "alg"} :
        \/ a = "sig" /\ ~SigValid(p)
        \/ a = "iss" /\ ~IssValid(p)
        \/ a = "aud" /\ ~AudValid(p)
        \/ a = "alg" /\ ~AlgValid(p)})

C6_NoAudienceNoWork ==
    \A p \in DOMAIN req :
        (pc[p] # "idle" /\ IsNone(req[p].audHdr) /\ IsNone(req[p].audQry)) =>
            /\ pc[p] = "done"
            /\ Rejected(resp[p])
            /\ lookups[p] = 0
            /\ fetches[p] = 0
            /\ verifies[p] = 0
            /\ IsNone(dkey[p])
            /\ p \notin readers
            /\ wlock # p

\* A request without audience was rejected although it carried a token that
\* the cached key would have verified.
C6_Witness ==
    \E p \in DOMAIN req :
        /\ pc[p] = "done"
        /\ IsNone(req[p].audHdr) /\ IsNone(req[p].audQry)
        /\ IsSome(req[p].jwtHdr)
        /\ Unwrap(req[p].jwtHdr).val = ValidToken
        /\ MapGet(jwks, "k1") = Some(KeyA)
        /\ Rejected(resp[p])

C8_UniformRejection ==
    \A p \in DOMAIN req : \A q \in DOMAIN req :
        (pc[p] = "done" /\ pc[q] = "done" /\ why[p] # "ok" /\ why[q] # "ok") =>
            /\ resp[p] = resp[q]
            /\ Rejected(resp[p])

\* Two requests rejected for different reasons, one at the gateway and one
\* at the signature check.
C8_Witness ==
    \E p \in DOMAIN req : \E q \in DOMAIN req :
        /\ pc[p] = "done" /\ pc[q] = "done"
        /\ why[p] = "missing audience"
        /\ why[q] = "InvalidSignature"

\* Task p is inside fetch_and_cache_keys.
InRefresh(p) == pc[p] \in {"fetch", "wlock", "insert"}
\* The refresh called by task p returns in this step.
RefreshReturns(p) ==
    /\ pc[p] \in {"fetch", "wlock", "insert"}
    /\ pc'[p] \notin {"fetch", "wlock", "insert"}
\* main's startup refresh returns in this step.
StartupRefreshReturns == RefreshReturns(MainP)
\* axum::serve starts accepting in this step, after a failed startup refresh.
ServesAfterFailure ==
    pc[MainP] = "bind" /\ pc'[MainP] = "serving" /\ last[MainP] = "Err"
\* Some handler has been entered.
SomeRequestTaken == \E p \in Reqs \cup {AdminP} : pc[p] # "idle"

\* C9 as stated: no request is taken before the startup refresh has returned,
\* a failed startup refresh does not abort startup, and after a failed
\* startup refresh the service starts accepting with an empty key store.
C9_StartsEmptyAfterFailure ==
    /\ []((Serving \/ SomeRequestTaken) => last[MainP] # "none")
    /\ [][StartupRefreshReturns =>
            pc'[MainP] = "spawn" /\ last'[MainP] \in {"Ok", "Err"}]_vars
    /\ [][ServesAfterFailure => jwks' = EmptyMap]_vars

\* C9 amended: as stated, but after a failed startup refresh the key store is
\* empty when main goes on to spawn the periodic task, and when the service
\* starts accepting it is empty unless the periodic task holds the write lock
\* or has already completed a refresh that replaced it.
C9_StartsEmptyUnlessTaskRefreshed ==
    /\ []((Serving \/ SomeRequestTaken) => last[MainP] # "none")
    /\ [][StartupRefreshReturns =>
            /\ pc'[MainP] = "spawn" /\ last'[MainP] \in {"Ok", "Err"}
            /\ last'[MainP] = "Err" => jwks' = EmptyMap]_vars
    /\ [][ServesAfterFailure =>
            \/ jwks' = EmptyMap
            \/ wlock = SchedP
            \/ /\ last[SchedP] # "none"
               /\ jwks' = committed
               /\ \E d \in DocsCore : committed = CacheAll(d)]_vars

\* The service is accepting after a failed startup refresh, the store is
\* empty, and a request is on its way to the first lookup.
C9_Witness ==
    /\ Serving
    /\ last[MainP] = "Err"
    /\ jwks = EmptyMap
    /\ \E p \in Reqs : pc[p] = "rlock1"

\* The periodic task's last refresh failed and it is not refreshing.
SchedFailed ==
    last[SchedP] = "Err" /\ ~InRefresh(SchedP)

\* C10: the periodic task is never anywhere but in its loop, a failed
\* scheduled refresh takes it back to waiting for the tick and leaves main
\* where it is, and after a failed refresh the task calls refresh again
\* unless the process has ended.
C10_SchedulerSurvivesFailure ==
    /\ [](pc[SchedP] \in {"unspawned", "tick", "fetch", "wlock", "insert"})
    /\ [][(RefreshReturns(SchedP) /\ last'[SchedP] = "Err") =>
            pc'[SchedP] = "tick" /\ pc'[MainP] = pc[MainP]]_vars
    /\ (SchedFailed ~> (pc[SchedP] = "fetch" \/ ~Alive))

\* A tick has fired after a failed scheduled refresh.
C10_Witness ==
    /\ last[SchedP] = "Err"
    /\ pc[SchedP] = "fetch"
    /\ Alive

(* -------------------------------- /health ------------------------------ *)

\* The task that runs health_handler.
HealthP == <<"health", 0>>

\* A liveness probe that looks at the key store before it answers.
HealthReadsStore ==
    /\ Serving
    /\ pc[HealthP] = "idle"
    /\ ReadGranted
    /\ pc' = [pc EXCEPT ![HealthP] = "done"]
    /\ resp' = [resp EXCEPT ![HealthP] =
         Some(create_response(IF jwks = EmptyMap THEN INTERNAL_SERVER_ERROR
                              ELSE OK))]
    /\ UNCHANGED <<interval, fired, env, jwks, wlock, readers, keys, idx, last,
                   req, dkey, why, fetches, lookups, verifies, now, committed>>

\* health_handler: create_response(StatusCode::OK), nothing else.
HealthHandler ==
    /\ Serving
    /\ pc[HealthP] = "idle"
    /\ pc' = [pc EXCEPT ![HealthP] = "done"]
    /\ resp' = [resp EXCEPT ![HealthP] = Some(create_response(OK))]
    /\ UNCHANGED <<interval, fired, env, jwks, wlock, readers, keys, idx, last,
                   req, dkey, why, fetches, lookups, verifies, now, committed>>

\* The tasks of the service with the liveness probe: main, the periodic
\* task, one /auth task and the /health task.
TasksHealth == {MainP, SchedP, Req(1), HealthP}

InitHealth ==
    /\ env \in {Some(TeamName), None}
    /\ pc = [p \in TasksHealth |->
                IF p = MainP THEN "config"
                ELSE IF p = SchedP THEN "unspawned" ELSE "idle"]
    /\ jwks = EmptyMap
    /\ committed = EmptyMap
    /\ wlock = NoProc
    /\ readers = {}
    /\ keys = [p \in TasksHealth |-> <<>>]
    /\ idx = [p \in TasksHealth |-> 0]
    /\ last = [p \in {MainP, SchedP} |-> "none"]
    /\ req = [p \in ReqSet(1) |-> NoRequest]
    /\ dkey = [p \in ReqSet(1) |-> None]
    /\ resp = [p \in TasksHealth |-> None]
    /\ why = [p \in ReqSet(1) |-> ""]
    /\ fetches = [p \in ReqSet(1) |-> 0]
    /\ lookups = [p \in ReqSet(1) |-> 0]
    /\ verifies = [p \in ReqSet(1) |-> 0]
    /\ now = T0
    /\ interval = None
    /\ fired = None

NextHealth ==
    \/ MainStep
    \/ SchedTick
    \/ HealthHandler
    \/ Finish(HealthP)
    \/ \E p \in {MainP, SchedP, Req(1)} : RefreshStep(p, DocsCore)
    \/ AuthStep(Req(1), RequestsCore)

SpecHealth == InitHealth /\ [][NextHealth]_vars

\* health_handler runs in this step.
HealthAnswers == pc[HealthP] = "idle" /\ pc'[HealthP] # "idle"

\* C11: while the service is accepting, /health can always be answered, the
\* answer is 200 whatever the state of the key store, the lock and the
\* refreshes, and answering changes neither the store, the lock, the keys of
\* a refresh in progress, nor any other task; the /health task never holds a
\* guard.
C11_HealthAlwaysOk ==
    /\ []((Serving /\ pc[HealthP] = "idle") => ENABLED HealthHandler)
    /\ [](HealthP \notin readers /\ wlock # HealthP
            /\ pc[HealthP] \in {"idle", "done"})
    /\ [](pc[HealthP] = "done" => resp[HealthP] = Some(create_response(OK)))
    /\ [][HealthAnswers =>
            /\ resp'[HealthP] = Some(create_response(OK))
            /\ pc'[HealthP] = "done"
            /\ \A p \in TasksHealth \ {HealthP} : pc'[p] = pc[p]
            /\ UNCHANGED <<jwks, wlock, readers, keys, idx, last, dkey,
                           fetches, lookups, verifies, committed>>]_vars

\* /health answered 200 while the startup refresh had failed and the
\* periodic task held the write lock over a cleared, still empty store.
C11_Witness ==
    /\ pc[HealthP] = "done"
    /\ Unwrap(resp[HealthP]).status = OK
    /\ last[MainP] = "Err"
    /\ wlock = SchedP
    /\ jwks = EmptyMap

(* --------------------------- fatal conditions -------------------------- *)

\* The refresh called by task p fails in this step.
RefreshFails(p) == pc[p] = "fetch" /\ pc'[p] \notin {"fetch", "wlock"}
\* Nothing has been fetched, spawned or served.
NothingDone ==
    /\ pc[SchedP] = "unspawned"
    /\ last[MainP] = "none"
    /\ jwks = EmptyMap
    /\ \A p \in Reqs \cup {AdminP} : pc[p] = "idle" /\ IsNone(resp[p])
\* No failed refresh ends the process or the periodic task.
RefreshFailureIsSurvived ==
    [][\A p \in Procs : RefreshFails(p) =>
          /\ pc'[MainP] # "panicked"
          /\ pc'[SchedP] \in {"unspawned", "tick", "fetch", "wlock", "insert"}
          /\ p # MainP => pc'[MainP] = pc[MainP]]_vars
\* Without the team name the process gets nowhere.
NoConfigNoWork ==
    [](IsNone(env) => (pc[MainP] \in {"config", "panicked"} /\ NothingDone))

\* C12 as stated: no failed refresh ends the process, the process is stopped
\* only when the team name is missing, and then nothing was fetched or
\* served.
C12_OnlyMissingConfigIsFatal ==
    /\ RefreshFailureIsSurvived
    /\ NoConfigNoWork
    /\ [](~Alive => IsNone(env))

\* C12 amended: no failed refresh ends the process and without the team name
\* nothing is fetched or served; the process stops only during startup (on
\* the missing team name, on the HTTP client that cannot be built, before any
\* fetch, or on the listener that cannot be bound, after the startup
\* refresh), always before a request is served, and never once it accepts
\* requests.
C12_OnlyStartupIsFatal ==
    /\ RefreshFailureIsSurvived
    /\ NoConfigNoWork
    /\ [](~Alive => \A p \in Reqs \cup {AdminP} :
                        pc[p] = "idle" /\ IsNone(resp[p]))
    /\ [][(Alive /\ ~Alive') =>
            \/ pc[MainP] = "config" /\ NothingDone
            \/ pc[MainP] = "bind" /\ IsSome(env) /\ last[MainP] # "none"]_vars
    /\ [][Serving => Serving']_vars

\* The startup, the scheduled, the admin-triggered and an on-demand refresh
\* have all failed, and the service is still accepting.
C12_Witness ==
    /\ Serving
    /\ last[MainP] = "Err"
    /\ last[SchedP] = "Err"
    /\ pc[AdminP] = "done"
    /\ Unwrap(resp[AdminP]).status = INTERNAL_SERVER_ERROR
    /\ \E p \in Reqs : pc[p] = "done" /\ why[p] = "refresh failed"

(* ------------------------- the interval, timed ------------------------- *)

\* How many periods of wall-clock time the timed specification covers.
MaxPeriods == 3

\* Duration::from_secs(12 * 60 * 60).
Period == 12 * 60 * 60

\* An interval left at tokio's default MissedTickBehavior::Burst.
BurstNextTimeout(timeout, t, period) == timeout + period

\* MissedTickBehavior::Skip.next_timeout: the next multiple of the period
\* from the original schedule that lies after t.
SkipNextTimeout(timeout, t, period) == t + period - ((t - timeout) % period)

\* Interval::poll_tick: the deadline after a tick that was due at timeout and
\* completes at t (the 5 ms tolerance is below the clock's resolution).
NextDeadline(timeout, t) ==
    IF t > timeout THEN SkipNextTimeout(timeout, t, Period)
    ELSE timeout + Period

\* A periodic task whose interval starts one period after the spawn.
SpawnTaskDelayed ==
    /\ pc[MainP] = "spawn"
    /\ pc' = [pc EXCEPT ![MainP] = "bind", ![SchedP] = "tick"]
    /\ interval' = Some(now + Period)
    /\ UNCHANGED <<fired, env, jwks, wlock, readers, keys, idx, last, req, dkey,
                   resp, why, fetches, lookups, verifies, now, committed>>

\* start_key_refresh_task with the clock: tokio::time::interval(period)
\* starts the interval now, so its first deadline is the present instant.
SpawnTaskTimed ==
    /\ pc[MainP] = "spawn"
    /\ pc' = [pc EXCEPT ![MainP] = "bind", ![SchedP] = "tick"]
    /\ interval' = Some(now)
    /\ UNCHANGED <<fired, env, jwks, wlock, readers, keys, idx, last, req, dkey,
                   resp, why, fetches, lookups, verifies, now, committed>>

\* interval.tick().await completes once the deadline is reached; the next
\* deadline is set and the refresh is called.
IntervalTick ==
    /\ Alive
    /\ pc[SchedP] = "tick"
    /\ IsSome(interval)
    /\ now >= Unwrap(interval)
    /\ pc' = [pc EXCEPT ![SchedP] = "fetch"]
    /\ interval' = Some(NextDeadline(Unwrap(interval), now))
    /\ fired' = Some([at |-> now,
                      skipped |-> (now - Unwrap(interval)) \div Period])
    /\ UNCHANGED <<env, jwks, wlock, readers, keys, idx, last, req, dkey, resp,
                   why, fetches, lookups, verifies, now, committed>>

\* Time passes, whether the process runs or not.
Advances == {Period \div 2, 2 * Period}
ClockAdvance(d) ==
    /\ now + d <= T0 + MaxPeriods * Period
    /\ now' = now + d
    /\ UNCHANGED <<interval, fired, env, pc, jwks, wlock, readers, keys, idx,
                   last, req, dkey, resp, why, fetches, lookups, verifies,
                   committed>>

DocsTimer == {<<GoodJwk("k1", "nA")>>}

InitTimer ==
    /\ InitTasks(ReqSet(1))
    /\ env = Some(TeamName)
    /\ pc = [p \in Tasks(ReqSet(1)) |->
                IF p = MainP THEN "config"
                ELSE IF p = SchedP THEN "unspawned" ELSE "idle"]
    /\ jwks = EmptyMap
    /\ committed = EmptyMap
    /\ last = [p \in {MainP, SchedP} |-> "none"]

NextTimer ==
    \/ ConfigOk
    \/ SpawnTaskTimed
    \/ BindOk
    \/ IntervalTick
    \/ \E d \in Advances : ClockAdvance(d)
    \/ \E p \in {MainP, SchedP, Req(1)} : RefreshStep(p, DocsTimer)
    \/ AuthStep(Req(1), RequestsCore)

SpecTimer == InitTimer /\ [][NextTimer]_vars

\* The interval's tick completes in this step.
TickFires == pc[SchedP] = "tick" /\ pc'[SchedP] = "fetch"

\* C13: a tick never completes before its deadline; when it completes, however
\* late, the next deadline lies strictly after the present instant, at most
\* one period ahead and on the original period grid, so the ticks that were
\* missed are never fired; and no two refreshes fire at the same instant.
C13_MissedTicksSkipped ==
    [][TickFires =>
         /\ now >= Unwrap(interval)
         /\ Unwrap(interval') > now
         /\ Unwrap(interval') <= now + Period
         /\ (Unwrap(interval') - Unwrap(interval)) % Period = 0
         /\ IsSome(fired) => now > Unwrap(fired).at]_vars

\* The process resumed after two or more ticks were missed: one refresh was
\* fired and the next deadline is in the future.
C13_Witness ==
    /\ IsSome(fired)
    /\ Unwrap(fired).skipped >= 2
    /\ Unwrap(fired).at = now
    /\ pc[SchedP] = "fetch"
    /\ Unwrap(interval) > now

\* The periodic task is spawned in this step.
TaskStarts == pc[SchedP] = "unspawned" /\ pc'[SchedP] # "unspawned"

\* C20: the periodic task is started after the startup refresh has returned,
\* with its first deadline at the instant it is started, so that until its
\* first tick has fired the tick is due and can fire at once; a tick that
\* fires less than one period late sets the next deadline exactly one period
\* after its own.
C20_FirstTickImmediate ==
    /\ [][TaskStarts =>
            /\ pc'[SchedP] = "tick"
            /\ last[MainP] # "none"
            /\ interval' = Some(now)]_vars
    /\ []((pc[SchedP] = "tick" /\ IsNone(fired)) =>
            (Unwrap(interval) <= now /\ ENABLED IntervalTick))
    /\ [][(TickFires /\ now - Unwrap(interval) < Period) =>
            Unwrap(interval') = Unwrap(interval) + Period]_vars

\* The startup refresh succeeded and, at the same instant, the periodic
\* task's first refresh is under way while the first request is being served.
C20_Witness ==
    /\ last[MainP] = "Ok"
    /\ now = T0
    /\ IsSome(fired) /\ Unwrap(fired).at = T0
    /\ pc[SchedP] \in {"fetch", "wlock", "insert"}
    /\ last[SchedP] = "none"
    /\ Serving
    /\ \E p \in ReqSet(1) : pc[p] \in {"rlock1", "get1", "decode"}

(* ------------------------- the on-demand refresh ----------------------- *)

\* Request p is between its first lookup's miss and the end of its retry.
InMissPath(p) == pc[p] \in {"fetch", "wlock", "insert", "rlock2", "get2"}
\* The kid of request p is in the map.
KidCached(p) == IsSome(MapGet(jwks, KidOf(p)))
\* The first / the retried lookup of request p returns in this step.
Lookup1Returns(p) == pc[p] = "get1" /\ pc'[p] # "get1"
Lookup2Returns(p) == pc[p] = "get2" /\ pc'[p] # "get2"

\* C14 as stated: a miss triggers a refresh; a request on the miss path is
\* rejected only while its kid is missing from the store; a retried lookup
\* that finds the kid goes on to verification.
C14_RejectsOnlyWhenStillMissing ==
    /\ [][\A p \in Reqs : (Lookup1Returns(p) /\ ~KidCached(p)) =>
            pc'[p] = "fetch"]_vars
    /\ [][\A p \in Reqs : (InMissPath(p) /\ pc'[p] = "done") =>
            ~KidCached(p)]_vars
    /\ [][\A p \in Reqs : (Lookup2Returns(p) /\ KidCached(p)) =>
            pc'[p] = "decode"]_vars

\* C14 amended: a miss triggers one refresh; when that refresh fails the
\* request is rejected without a retried lookup, whatever the store holds;
\* when it succeeds the lookup is retried once, and the request is rejected
\* there iff the kid is missing, and goes on to verification with the key
\* found iff it is present.
C14_RetryOnlyAfterSuccessfulRefresh ==
    /\ [][\A p \in Reqs : (Lookup1Returns(p) /\ ~KidCached(p)) =>
            (pc'[p] = "fetch" /\ fetches'[p] = 1)]_vars
    /\ [][\A p \in Reqs : RefreshFails(p) =>
            /\ pc'[p] = "done" /\ Rejected(resp'[p])
            /\ why'[p] = "refresh failed"
            /\ lookups'[p] = 1]_vars
    /\ [][\A p \in Reqs : (pc[p] = "insert" /\ pc'[p] # "insert") =>
            pc'[p] = "rlock2"]_vars
    /\ [][\A p \in Reqs : Lookup2Returns(p) =>
            /\ lookups'[p] = 2 /\ fetches'[p] = 1
            /\ IF KidCached(p)
               THEN pc'[p] = "decode" /\ dkey'[p] = MapGet(jwks, KidOf(p))
               ELSE /\ pc'[p] = "done" /\ Rejected(resp'[p])
                    /\ why'[p] = "unknown kid"]_vars
    /\ [][\A p \in Reqs : (InMissPath(p) /\ pc'[p] = "done") =>
            (pc[p] = "fetch" \/ (pc[p] = "get2" /\ ~KidCached(p)))]_vars

\* A request was rejected because its own refresh failed, although another
\* refresh had put its kid into the store meanwhile.
C14_Witness ==
    \E p \in Reqs :
        /\ pc[p] = "done"
        /\ why[p] = "refresh failed"
        /\ lookups[p] = 1
        /\ KidCached(p)

(* ------------------------- the lock and the fetch ---------------------- *)

\* C15: a task whose fetch is in progress holds neither guard; the write
\* guard is held only by a task in its clear-and-insert loop, which it enters
\* only with its fetch returned, and a read guard only by a task at a lookup;
\* so while no task is in that loop, however many fetches are in progress, a
\* lookup can take the read lock at once.
C15_NoLockDuringFetch ==
    /\ [](\A p \in Procs : pc[p] = "fetch" => (wlock # p /\ p \notin readers))
    /\ [](wlock # NoProc => pc[wlock] = "insert")
    /\ [](\A p \in readers : pc[p] \in {"get1", "get2"})
    /\ [][\A p \in Procs : (pc[p] # "insert" /\ pc'[p] = "insert") =>
            (pc[p] = "wlock" /\ wlock = NoProc /\ wlock' = p)]_vars
    /\ [][\A p \in Procs : (pc[p] # "wlock" /\ pc'[p] = "wlock") =>
            (pc[p] = "fetch" /\ wlock' = wlock)]_vars
    /\ []((\A w \in Procs : pc[w] # "insert") =>
            \A p \in Reqs : pc[p] \in {"rlock1", "rlock2"} =>
                ENABLED ReadLock(p))

\* A lookup holds the read guard over a filled store while the fetch of
\* another task's refresh is in progress.
C15_Witness ==
    \E p \in Reqs : \E w \in Procs :
        /\ p \in readers
        /\ pc[w] = "fetch"
        /\ w # p
        /\ jwks # EmptyMap

(* ------------------------ concurrent on-demand misses ------------------ *)

\* C16: a request that misses starts its own refresh whatever the other
\* requests are doing; from then on it has made exactly one fetch of its own,
\* which can return without regard to the others; and the completion of
\* another request's refresh neither moves it nor gives it keys.
C16_NoDeduplication ==
    /\ [][\A p \in DOMAIN req : (Lookup1Returns(p) /\ ~KidCached(p)) =>
            (pc'[p] = "fetch" /\ fetches'[p] = 1)]_vars
    /\ [](\A p \in DOMAIN req : InMissPath(p) => fetches[p] = 1)
    /\ [](\A p \in DOMAIN req : pc[p] = "fetch" =>
            ENABLED (\E o \in Outcomes(DocsV) : FetchOk(p, o)))
    /\ [][\A p \in DOMAIN req : \A q \in DOMAIN req \ {p} :
            (pc[p] \in {"fetch", "wlock"} /\ pc[q] = "insert"
               /\ pc'[q] # "insert") =>
                (pc'[p] = pc[p] /\ keys'[p] = keys[p]
                   /\ fetches'[p] = fetches[p])]_vars

\* Two requests for the same unknown kid have both missed, and the fetch of
\* each is in progress: two fetches for one kid.
C16_Witness ==
    \E p \in DOMAIN req : \E q \in DOMAIN req :
        /\ p # q
        /\ pc[p] = "fetch" /\ pc[q] = "fetch"
        /\ KidOf(p) = "k9" /\ KidOf(q) = "k9"
        /\ fetches[p] + fetches[q] = 2

(* --------------------------- overlapping refreshes --------------------- *)

\* The key set the provider serves at time t: it rotates its keys after T0
\* (k1 is withdrawn, k2 gets new key material).
DocAt(t) ==
    IF t = T0 THEN <<GoodJwk("k1", "nA"), GoodJwk("k2", "nB")>>
    ELSE <<GoodJwk("k2", "nC")>>

InitOverlap == InitServing(ReqSet(1), EmptyMap)

\* The service is accepting; the periodic task, /refresh-keys and one /auth
\* request refresh side by side, each fetch returning what the provider
\* serves at that time.
NextOverlap ==
    \/ SchedTick
    \/ AdminStart
    \/ Finish(AdminP)
    \/ ClockTick
    \/ \E p \in {SchedP, AdminP, Req(1)} : RefreshStep(p, {DocAt(now)})
    \/ AuthStep(Req(1), RequestsCore)

SpecOverlap == InitOverlap /\ [][NextOverlap]_vars

\* The refresh of task p drops the write guard in this step.
Commits(p) == pc[p] = "insert" /\ pc'[p] # "insert"

\* C17: the task that acquires the write lock discards what its predecessors
\* stored; when it releases the lock the store is the filtered key set it
\* fetched itself, whenever that was fetched; and while no task holds the
\* lock the store is the filtered key set of the last task that held it.
C17_LastLockHolderWins ==
    /\ [][\A p \in Tasks(ReqSet(1)) : (pc[p] = "wlock" /\ pc'[p] = "insert") =>
            (wlock' = p /\ jwks' = EmptyMap)]_vars
    /\ [][\A p \in Tasks(ReqSet(1)) : Commits(p) =>
            (wlock' = NoProc /\ jwks' = CacheAll(keys[p])
               /\ committed' = CacheAll(keys[p]))]_vars
    /\ [](wlock = NoProc => jwks = committed)

\* After the provider rotated its keys and a refresh stored the new set, a
\* refresh whose fetch had returned before the rotation holds the lock and
\* has put the withdrawn set back.
C17_Witness ==
    \E p \in Tasks(ReqSet(1)) :
        /\ now > T0
        /\ committed = CacheAll(DocAt(now))
        /\ wlock = p
        /\ keys[p] = DocAt(T0)
        /\ idx[p] > Len(keys[p])
        /\ jwks = CacheAll(DocAt(T0))
        /\ jwks # committed

(* ------------------------------ termination ---------------------------- *)

\* One request for each way auth_handler can go.
RequestsLive ==
    {HdrRequest("svc-a", ValidToken),
     HdrRequest("svc-a", [ValidToken EXCEPT !.kid = Some("k9")]),
     HdrRequest("svc-a", [ValidToken EXCEPT !.sig = Forged]),
     Request(None, None, Some(Hdr(TRUE, ValidToken)), None),
     Request(Some(Hdr(TRUE, "svc-a")), None, None, None),
     HdrRequest("svc-a", [ValidToken EXCEPT !.hdrOk = FALSE]),
     HdrRequest("svc-a", [ValidToken EXCEPT !.kid = None])}

InitLive == InitServing(ReqSet(2), CacheAll(<<GoodJwk("k1", "nA")>>))

\* Two /auth tasks and the periodic task.
NextLive ==
    \/ SchedTick
    \/ \E p \in {SchedP} \cup ReqSet(2) : RefreshStep(p, DocsV)
    \/ \E p \in ReqSet(2) : AuthStep(p, RequestsLive)

\* Every fetch returns (reqwest's 30 s timeout), the RwLock is fair to every
\* waiting reader and writer, and a task that can run does.
FairnessLive ==
    /\ \A p \in {SchedP} \cup ReqSet(2) :
         /\ WF_vars(\E o \in Outcomes(DocsV) : FetchOk(p, o) \/ FetchErr(p, o))
         /\ SF_vars(WriteLock(p))
         /\ WF_vars(InsertKey(p) \/ WriteUnlock(p))
    /\ \A p \in ReqSet(2) :
         /\ SF_vars(ReadLock(p))
         /\ WF_vars(Get1Hit(p) \/ Get1Miss(p) \/ Get2Hit(p) \/ Get2Miss(p))
         /\ WF_vars(DecodeAccept(p) \/ DecodeReject(p))

SpecLive == InitLive /\ [][NextLive]_vars /\ FairnessLive

\* Request p is being handled / has its response.
InProgress(p) == pc[p] \notin {"idle", "done"}
Answered(p) == pc[p] = "done" /\ (Accepted(resp[p]) \/ Rejected(resp[p]))

\* C18: a task that waits for or holds the write lock holds no read guard and
\* a task that holds a read guard is at a lookup; a response of /auth is a
\* 204 or a 401; and every request that is being handled is answered.
C18_EveryAuthAnswers ==
    /\ [](\A p \in DOMAIN req :
            pc[p] \in {"fetch", "wlock", "insert"} => p \notin readers)
    /\ [](\A p \in DOMAIN req : pc[p] = "done" => Answered(p))
    /\ \A p \in ReqSet(2) : InProgress(p) ~> Answered(p)

\* A request that missed, refreshed and retried has its response while the
\* other request is waiting for the write lock of its own refresh.
C18_Witness ==
    \E p \in DOMAIN req : \E q \in DOMAIN req :
        /\ p # q
        /\ Answered(p)
        /\ fetches[p] = 1 /\ lookups[p] = 2
        /\ pc[q] = "wlock"

(* ------------------------------ frame of /auth ------------------------- *)

\* C19: a request makes a fetch only at its first lookup, when its header
\* parsed, carried a kid and the kid was not in the store; a request stopped
\* before the lookup is rejected with no lookup and no fetch; a first lookup
\* that finds the kid goes on to verification and the request, accepted or
\* rejected, never fetches; and the store changes only under the write lock
\* of a refresh that such a miss has started.
C19_RefreshOnlyOnMiss ==
    /\ [][\A p \in DOMAIN req : fetches'[p] > fetches[p] =>
            (/\ pc[p] = "get1" /\ Stage(req[p]) = "lookup"
             /\ ~KidCached(p) /\ fetches'[p] = 1)]_vars
    /\ [](\A p \in DOMAIN req :
            (pc[p] # "idle" /\ Stage(req[p]) # "lookup") =>
                (/\ pc[p] = "done" /\ Rejected(resp[p])
                 /\ fetches[p] = 0 /\ lookups[p] = 0))
    /\ [][\A p \in DOMAIN req : (Lookup1Returns(p) /\ KidCached(p)) =>
            (pc'[p] = "decode" /\ fetches'[p] = 0)]_vars
    /\ [](\A p \in DOMAIN req :
            (pc[p] \in {"decode", "done"} /\ lookups[p] = 1
               /\ why[p] # "refresh failed") => fetches[p] = 0)
    /\ [][jwks' # jwks =>
            \E p \in DOMAIN req :
                /\ pc[p] \in {"wlock", "insert"}
                /\ fetches[p] = 1 /\ lookups[p] = 1]_vars

\* A request whose kid was cached was rejected for its signature: one
\* lookup, no fetch, the store as it was.
C19_Witness ==
    \E p \in DOMAIN req :
        /\ pc[p] = "done"
        /\ why[p] = "InvalidSignature"
        /\ lookups[p] = 1
        /\ fetches[p] = 0
        /\ KidCached(p)
        /\ jwks = CacheAll(<<GoodJwk("k1", "nA")>>)

====
